---- MODULE Spec2Model ----
(***************************************************************************)
(* AioHTTPTransport (httpx/_transports/aiohttp.py): an httpx transport     *)
(* that delegates request dispatch to an aiohttp ClientSession bound to a  *)
(* connector built at construction time.                                   *)
(*                                                                         *)
(* The transport is driven by asyncio tasks: a task runs without           *)
(* interruption from one await to the next, so every action below is the   *)
(* code between two consecutive awaits of one coroutine.                   *)
(***************************************************************************)
EXTENDS Integers, Sequences, FiniteSets, TLC

\* ------------------------------------------------------------------ bounds
NTasks == 2
MaxSessions == 3
MaxCloses == 2
MaxChunks == 1
MaxReads == 3

Tasks == 1..NTasks
SessionIds == 1..MaxSessions

\* Python's None, for self._session and for an absent limit.
None == -1

\* ------------------------------------------------- engine error hierarchy
\* Direct base classes of the exception types the engine can raise out of
\* session.request(); "Exception" is the root.
Bases(c) ==
  CASE c = "ClientError"                -> {"Exception"}
    [] c = "ClientResponseError"        -> {"ClientError"}
    [] c = "ContentTypeError"           -> {"ClientResponseError"}
    [] c = "ClientConnectionError"      -> {"ClientError"}
    [] c = "ClientOSError"              -> {"ClientConnectionError", "OSError"}
    [] c = "ClientConnectorError"       -> {"ClientOSError"}
    [] c = "ClientProxyConnectionError" -> {"ClientConnectorError"}
    [] c = "ClientSSLError"             -> {"ClientConnectorError"}
    [] c = "ServerConnectionError"      -> {"ClientConnectionError"}
    [] c = "ServerDisconnectedError"    -> {"ServerConnectionError"}
    [] c = "ServerTimeoutError"         -> {"ServerConnectionError", "TimeoutError"}
    [] c = "ClientPayloadError"         -> {"ClientError"}
    [] c = "InvalidURL"                 -> {"ClientError", "ValueError"}
    [] c = "TimeoutError"               -> {"Exception"}
    [] c = "OSError"                    -> {"Exception"}
    [] c = "ValueError"                 -> {"Exception"}
    [] c = "RuntimeError"               -> {"Exception"}
    [] OTHER                            -> {}

\* Exceptions that can come out of the engine call.
EngineRaises ==
  {"ClientError", "ClientResponseError", "ContentTypeError",
   "ClientConnectionError", "ClientOSError", "ClientConnectorError",
   "ClientProxyConnectionError", "ClientSSLError", "ServerConnectionError",
   "ServerDisconnectedError", "ServerTimeoutError", "ClientPayloadError",
   "InvalidURL", "TimeoutError", "RuntimeError"}

\* The three ways an exception of the engine call can leave the handler: a
\* client error, a timeout that is also a client error, and an exception
\* that no except clause catches.
LifecycleRaises == {"ClientConnectorError", "ServerTimeoutError", "RuntimeError"}

RECURSIVE IsInstance(_, _)
IsInstance(e, c) ==
  \/ e = c
  \/ \E b \in Bases(e) : IsInstance(b, c)

\* The try/except of handle_async_request: the exception the caller sees when
\* the engine call raises exc.
MapError_OSFirst(exc) ==
  IF IsInstance(exc, "ClientError") THEN
    IF IsInstance(exc, "ClientOSError") THEN "NetworkError"
    ELSE IF IsInstance(exc, "ClientConnectorError") THEN "ConnectError"
    ELSE IF IsInstance(exc, "ServerDisconnectedError") THEN "RemoteProtocolError"
    ELSE IF IsInstance(exc, "ClientResponseError") THEN "ProtocolError"
    ELSE IF IsInstance(exc, "ClientPayloadError") THEN "ReadError"
    ELSE "NetworkError"
  ELSE IF IsInstance(exc, "TimeoutError") THEN "TimeoutException"
  ELSE exc

MapError(exc) ==
  IF IsInstance(exc, "ClientError") THEN
    IF IsInstance(exc, "ClientConnectorError") THEN "ConnectError"
    ELSE IF IsInstance(exc, "ClientOSError") THEN "NetworkError"
    ELSE IF IsInstance(exc, "ServerDisconnectedError") THEN "RemoteProtocolError"
    ELSE IF IsInstance(exc, "ClientResponseError") THEN "ProtocolError"
    ELSE IF IsInstance(exc, "ClientPayloadError") THEN "ReadError"
    ELSE "NetworkError"
  ELSE IF IsInstance(exc, "TimeoutError") THEN "TimeoutException"
  ELSE exc

\* The httpx error kinds the except clauses can raise.
MappedKinds ==
  {"ConnectError", "NetworkError", "RemoteProtocolError", "ProtocolError",
   "ReadError", "TimeoutException"}


\* ------------------------------------------------------------ construction
\* Arguments of AioHTTPTransport.__init__ after line 68 has wrapped a str/URL
\* proxy into a Proxy (such a proxy carries no headers).  extension says
\* whether the aiohttp_http2 package can be imported in this runtime.
ProxySchemes == {"http", "https", "ftp", "socks5"}
ProxyHeaderChoices == {{}, {<<"Proxy-Authorization", "Basic x">>}}
NoProxy == [present |-> FALSE, scheme |-> "", host |-> "", headers |-> {}]
Proxies ==
  {NoProxy} \cup
  [present : {TRUE}, scheme : ProxySchemes, host : {"example.org"},
   headers : ProxyHeaderChoices]

LimitsChoices ==
  [max_connections : {None, 100},
   max_keepalive_connections : {None, 20},
   keepalive_expiry : {None, 5}]

Configs ==
  [http2 : BOOLEAN, extension : BOOLEAN, limits : LimitsChoices,
   proxy : Proxies, trust_env : {TRUE}]

\* AioHTTPTransport() with every argument left at its default.
DefaultConfig ==
  [http2 |-> FALSE, extension |-> FALSE,
   limits |-> [max_connections |-> 100, max_keepalive_connections |-> 20,
               keepalive_expiry |-> 5],
   proxy |-> NoProxy, trust_env |-> TRUE]

\* str(proxy.url)
UrlStr(p) == p.scheme \o "://" \o p.host

ProxySchemeSupported_Any(scheme) == TRUE

\* proxy.url.scheme in ("http", "https")
ProxySchemeSupported(scheme) == scheme \in {"http", "https"}

\* connector_kwargs as built by lines 79-93; keys is the set of keys present
\* in the dict (proxy and proxy_headers are only set on some paths).
ConnectorKwargs(cfg) ==
  LET base == {"ssl", "limit", "enable_cleanup_closed", "force_close",
               "limit_per_host", "ttl_dns_cache"}
      withProxy == cfg.proxy.present /\ ProxySchemeSupported(cfg.proxy.scheme)
      withHeaders == withProxy /\ cfg.proxy.headers # {}
  IN [keys |-> base \cup (IF withProxy THEN {"proxy"} ELSE {})
                    \cup (IF withHeaders THEN {"proxy_headers"} ELSE {}),
      ssl |-> "ssl_context",
      limit |-> cfg.limits.max_connections,
      enable_cleanup_closed |-> TRUE,
      force_close |-> FALSE,
      limit_per_host |-> cfg.limits.max_keepalive_connections,
      ttl_dns_cache |-> cfg.limits.keepalive_expiry,
      proxy |-> IF withProxy THEN UrlStr(cfg.proxy) ELSE "",
      proxy_headers |-> IF withHeaders THEN cfg.proxy.headers ELSE {}]

NoKwargs ==
  [keys |-> {}, ssl |-> "", limit |-> None, enable_cleanup_closed |-> FALSE,
   force_close |-> FALSE, limit_per_host |-> None, ttl_dns_cache |-> None,
   proxy |-> "", proxy_headers |-> {}]

ProbesExtension_Always(cfg) == TRUE

\* `import aiohttp_http2` is only reached inside `if http2:`.
ProbesExtension(cfg) == cfg.http2

\* The outcome of __init__: status is "ok" or the exception raised; connector
\* is the class of self._connector ("none" when __init__ raised before
\* creating it); badScheme is the scheme named in the ValueError message.
Constructed(cfg) ==
  IF cfg.proxy.present /\ ~ProxySchemeSupported(cfg.proxy.scheme)
  THEN [status |-> "ValueError", connector |-> "none", kwargs |-> NoKwargs,
        probed |-> FALSE, badScheme |-> cfg.proxy.scheme]
  ELSE IF ProbesExtension(cfg)
  THEN IF cfg.extension
       THEN [status |-> "ok", connector |-> "HTTP2ClientConnector",
             kwargs |-> ConnectorKwargs(cfg), probed |-> TRUE,
             badScheme |-> ""]
       ELSE [status |-> "ImportError", connector |-> "none",
             kwargs |-> NoKwargs, probed |-> TRUE, badScheme |-> ""]
  ELSE [status |-> "ok", connector |-> "TCPConnector",
        kwargs |-> ConnectorKwargs(cfg), probed |-> FALSE, badScheme |-> ""]

\* ------------------------------------------------------- request, response
\* Header lists a request can carry: ordered (name, value) pairs, names not
\* necessarily unique.
RequestHeaderChoices ==
  {<< >>,
   << <<"X-Test", "a">> >>,
   << <<"Accept", "a">>, <<"X-Test", "b">> >>,
   << <<"X-Test", "a">>, <<"X-Test", "b">> >>}

\* The request body streams of the lifecycle runs produce MaxChunks chunks: a
\* shorter stream suspends the call at fewer points and touches nothing but
\* the call's own locals, so its interleavings are among those of the longer.
LifecycleChunks == {MaxChunks}

\* The headers of a request the lifecycle is exercised with.
LifecycleHeaders == {<< <<"X-Test", "a">> >>}

\* request.headers.items(): the (name, value) pairs of the request, in order.
HeaderItems(h) == h

\* dict(pairs): one entry per key, holding the value of the last pair with
\* that key.
Dict(pairs) ==
  {<<pairs[i][1], pairs[i][2]>> :
     i \in {i \in DOMAIN pairs :
              \A j \in DOMAIN pairs : j > i => pairs[j][1] # pairs[i][1]}}

AllowRedirects_Default == TRUE

\* allow_redirects=False in the engine call
AllowRedirects == FALSE

\* Text is a sequence of code points, bytes a record around a sequence of
\* octets.  s.encode("ascii") succeeds when every code point is below 128.
CanEncodeAscii(s) == \A i \in DOMAIN s : s[i] < 128
EncodeAscii(s) == [octets |-> [i \in DOMAIN s |-> s[i] % 256]]
DecodeAscii(b) == [i \in DOMAIN b.octets |-> b.octets[i]]

\* Header texts of engine responses: "Location", "/next", "X", "ok" and a
\* value with a non-ASCII code point.
TxtLocation == <<76, 111, 99, 97, 116, 105, 111, 110>>
TxtNext == <<47, 110, 101, 120, 116>>
TxtX == <<88>>
TxtOk == <<111, 107>>
TxtNonAscii == <<47, 233>>

ResponseHeaderChoices ==
  {<< >>,
   << <<TxtX, TxtOk>> >>,
   << <<TxtLocation, TxtNext>>, <<TxtX, TxtOk>> >>,
   << <<TxtX, TxtOk>>, <<TxtX, TxtOk>> >>,
   << <<TxtLocation, TxtNonAscii>> >>}

\* The size passed to self._content.read().
ReadSize == 65536

\* What the server answers: status line, headers and the length of the body
\* the engine's content stream will deliver.
Responses ==
  [status : {200, 302}, headers : ResponseHeaderChoices,
   length : {0, 1, ReadSize, ReadSize + 1}]

\* The response the lifecycle is exercised with: no headers, empty body.
LifecycleResponses == {[status |-> 200, headers |-> << >>, length |-> 0]}

NoResponse == [status |-> 0, headers |-> << >>, length |-> 0]

HasLocation(r) == \E i \in DOMAIN r.headers : r.headers[i][1] = TxtLocation

\* What session.request() hands back for the server's answer r: with
\* redirect following enabled the engine requests the Location of a 3xx
\* itself and hands back the answer to that.
EngineResponse(r, allow) ==
  IF allow /\ r.status \in 300..399 /\ HasLocation(r)
  THEN [status |-> 200, headers |-> << >>, length |-> r.length]
  ELSE r

\* Engine calls made for the server's answer r.
EngineCalls(r, allow) ==
  IF allow /\ r.status \in 300..399 /\ HasLocation(r) THEN 2 ELSE 1

\* Lines 164-165 can build the Response.
CanTranslate(r) ==
  \A i \in DOMAIN r.headers :
    CanEncodeAscii(r.headers[i][1]) /\ CanEncodeAscii(r.headers[i][2])

\* [(k.encode("ascii"), v.encode("ascii")) for k, v in headers.items()]
TranslateHeaders(h) ==
  [i \in DOMAIN h |-> <<EncodeAscii(h[i][1]), EncodeAscii(h[i][2])>>]

\* Exceptions self._content.read() can raise.
StreamRaises ==
  {"ClientPayloadError", "ServerDisconnectedError", "ServerTimeoutError",
   "TimeoutError", "RuntimeError"}

LifecycleStreamRaises == {"ClientPayloadError"}

StreamMapError_Reraise(exc) == exc

\* The except clause of AsyncResponseStream.__aiter__.
StreamMapError(exc) ==
  IF IsInstance(exc, "ClientError") \/ IsInstance(exc, "TimeoutError")
  THEN "NetworkError"
  ELSE exc

\* Sizes of the block a read of at most size bytes can return when rest
\* bytes of the body remain: nothing at the end of the stream, otherwise a
\* single byte or as much as fits.
ReadResults(size, rest) ==
  IF rest = 0 THEN {0}
  ELSE {1, IF rest < size THEN rest ELSE size}

\* ------------------------------------------------------------------- state
VARIABLES
  config,          \* the arguments __init__ is (or was) called with
  ctor,            \* "new" before __init__ ran, then Constructed(config)
  session,         \* self._session: None or the id of a ClientSession
  nSessions,       \* ClientSession objects constructed so far
  sessClosed,      \* per session: a call of its close() has completed
  sessCloseCalls,  \* per session: calls of its close()
  connCloseCalls,  \* calls of self._connector.close()
  connClosed,      \* a self._connector.close() has completed
  closeCalls,      \* calls of aclose() (directly or through __aexit__)
  closeDone,       \* some aclose() has returned
  task             \* per task: the coroutine it is suspended in

vars ==
  <<config, ctor, session, nSessions, sessClosed, sessCloseCalls,
    connCloseCalls, connClosed, closeCalls, closeDone, task>>

ctorVars == <<config, ctor>>
sessVars == <<session, nSessions, sessClosed, sessCloseCalls>>
connVars == <<connCloseCalls, connClosed>>
closeVars == <<closeCalls, closeDone>>

Pending == [status |-> "new", connector |-> "none", kwargs |-> NoKwargs,
            probed |-> FALSE, badScheme |-> ""]

\* A task that is not inside any coroutine of the transport.  Inside
\* handle_async_request: left is the number of body chunks still to come,
\* own the value of self._session after lines 138-139, createdIt whether
\* these lines constructed it, afterErr whether the call began when another
\* call on the same session had just raised a mapped error, via the session
\* whose request() was called, exc the exception raised by the engine and
\* raised the one leaving the handler.  Inside aclose: seen is the session
\* whose close() is awaited.
\* Data of the call: reqHeaders the header pairs of the request, headers
\* the dict built from them, n the number of chunks of the request body, fed
\* the chunks (by position) given to feed_data(), eof the calls of
\* feed_eof(), calls the engine requests made, engResp what the engine call
\* handed back, response the Response returned, released whether the engine
\* response has left its `async with`, served what the server answered,
\* readLog the sizes of the blocks self._content.read() returned, yielded the
\* chunks the body iterator yielded, each with its offset in the body.
Idle ==
  [pc |-> "idle", left |-> 0, own |-> None, createdIt |-> FALSE,
   afterErr |-> FALSE, via |-> None, seen |-> None, exc |-> "",
   raised |-> "",
   reqHeaders |-> << >>, headers |-> {}, n |-> 0, fed |-> << >>, eof |-> 0,
   calls |-> 0, served |-> NoResponse, engResp |-> NoResponse,
   response |-> [status_code |-> 0, headers |-> << >>],
   released |-> FALSE, readLog |-> << >>, yielded |-> << >>]

Fresh ==
  /\ session = None
  /\ nSessions = 0
  /\ sessClosed = [s \in SessionIds |-> FALSE]
  /\ sessCloseCalls = [s \in SessionIds |-> 0]
  /\ connCloseCalls = 0
  /\ connClosed = FALSE
  /\ closeCalls = 0
  /\ closeDone = FALSE
  /\ task = [t \in Tasks |-> Idle]

\* The transport as AioHTTPTransport() leaves it.
Init ==
  /\ config = DefaultConfig
  /\ ctor = Constructed(DefaultConfig)
  /\ Fresh

\* Before __init__ runs, for any arguments.
InitCtor ==
  /\ config \in Configs
  /\ ctor = Pending
  /\ Fresh

\* AioHTTPTransport.__init__
Construct ==
  /\ ctor.status = "new"
  /\ ctor' = Constructed(config)
  /\ UNCHANGED <<config, sessVars, connVars, closeVars, task>>

\* ---------------------------------------------------------------- sessions
NewSessionNeeded_Always == TRUE

\* `if self._session is None:` in __aenter__ and handle_async_request
NewSessionNeeded == session = None

\* The bound on ClientSession objects leaves room for the creation.
CanEnsureSession == NewSessionNeeded => nSessions < MaxSessions

\* `if self._session is None: self._session = aiohttp.ClientSession(...)`;
\* the constructor does not await, so check and assignment are one step.
EnsureSession ==
  IF NewSessionNeeded
  THEN /\ nSessions' = nSessions + 1
       /\ session' = nSessions + 1
  ELSE UNCHANGED <<session, nSessions>>

\* hasattr(self._connector, "close"): both connector classes define close().
HasClose(connector) == connector \in {"TCPConnector", "HTTP2ClientConnector"}

\* ------------------------------------------------------------- __aenter__
AEnter(t) ==
  /\ ctor.status = "ok"
  /\ task[t].pc = "idle"
  /\ CanEnsureSession
  /\ EnsureSession
  /\ UNCHANGED <<ctorVars, sessClosed, sessCloseCalls, connVars, closeVars,
                 task>>

\* --------------------------------------------------- handle_async_request
\* A call on session s has raised a mapped error that its caller is just
\* receiving.
JustFailedOn(s) ==
  \E u \in Tasks : /\ task[u].pc = "raised"
                   /\ task[u].raised \in MappedKinds
                   /\ task[u].via = s

HandleStart_Locked(t, streamable, n, h) ==
  /\ ctor.status = "ok"
  /\ task[t].pc = "idle"
  /\ \A u \in Tasks \ {t} : task[u].pc \notin {"body", "sent"}
  /\ CanEnsureSession
  /\ EnsureSession
  /\ LET entered ==
           [Idle EXCEPT !.own = session',
                        !.createdIt = NewSessionNeeded,
                        !.afterErr = JustFailedOn(session),
                        !.reqHeaders = h,
                        !.headers = Dict(HeaderItems(h))]
     IN task' = [task EXCEPT ![t] =
                   IF streamable
                   THEN [entered EXCEPT !.pc = "body", !.left = n, !.n = n]
                   ELSE [entered EXCEPT !.pc = "sent", !.via = session',
                                        !.calls = 1]]
  /\ UNCHANGED <<ctorVars, sessClosed, sessCloseCalls, connVars, closeVars>>

\* Lines 138-156 up to the first await.  h are the header pairs of the
\* request, streamable is hasattr(request.stream, "__aiter__"), n the number
\* of chunks the stream will produce.  Without a streamable body the code
\* runs on to the engine call of line 156 without suspending.
HandleStart(t, streamable, n, h) ==
  /\ ctor.status = "ok"
  /\ task[t].pc = "idle"
  /\ CanEnsureSession
  /\ EnsureSession
  /\ LET entered ==
           [Idle EXCEPT !.own = session',
                        !.createdIt = NewSessionNeeded,
                        !.afterErr = JustFailedOn(session),
                        !.reqHeaders = h,
                        !.headers = Dict(HeaderItems(h))]
     IN task' = [task EXCEPT ![t] =
                   IF streamable
                   THEN [entered EXCEPT !.pc = "body", !.left = n, !.n = n]
                   ELSE [entered EXCEPT !.pc = "sent", !.via = session',
                                        !.calls = 1]]
  /\ UNCHANGED <<ctorVars, sessClosed, sessCloseCalls, connVars, closeVars>>

BodyNext_EofPerChunk(t) ==
  /\ task[t].pc = "body"
  /\ task' = [task EXCEPT ![t] =
       IF task[t].left > 0
       THEN [@ EXCEPT !.left = @ - 1,
                      !.fed = Append(@, task[t].n - task[t].left + 1),
                      !.eof = @ + 1]
       ELSE IF session = None
       THEN [Idle EXCEPT !.pc = "raised", !.exc = "AttributeError",
                         !.raised = "AttributeError"]
       ELSE [@ EXCEPT !.pc = "sent", !.via = session, !.calls = 1]]
  /\ UNCHANGED <<ctorVars, sessVars, connVars, closeVars>>

\* `async for chunk in request.stream` resumes: either with the next chunk,
\* which is fed to the StreamReader, or with the end of the stream, after
\* which feed_eof() runs and `self._session.request(...)` is evaluated on
\* whatever self._session holds by now.
BodyNext(t) ==
  /\ task[t].pc = "body"
  /\ task' = [task EXCEPT ![t] =
       IF task[t].left > 0
       THEN [@ EXCEPT !.left = @ - 1,
                      !.fed = Append(@, task[t].n - task[t].left + 1)]
       ELSE IF session = None
       THEN [Idle EXCEPT !.pc = "raised", !.exc = "AttributeError",
                         !.raised = "AttributeError"]
       ELSE [@ EXCEPT !.pc = "sent", !.via = session, !.eof = @ + 1,
                      !.calls = 1]]
  /\ UNCHANGED <<ctorVars, sessVars, connVars, closeVars>>

\* The engine call hands back a response for the server's answer r.  Lines
\* 164-173 build the Response from it and return, which takes the engine
\* response out of its `async with`; a header that is not ASCII makes
\* encode() raise instead.
RespondOk(t, r) ==
  /\ task[t].pc = "sent"
  /\ LET got == EngineResponse(r, AllowRedirects)
         met == [Idle EXCEPT !.via = task[t].via,
                             !.reqHeaders = task[t].reqHeaders,
                             !.headers = task[t].headers,
                             !.calls = EngineCalls(r, AllowRedirects),
                             !.served = r,
                             !.released = TRUE]
     IN task' = [task EXCEPT ![t] =
          IF CanTranslate(got)
          THEN [met EXCEPT !.pc = "returned",
                           !.engResp = got,
                           !.response = [status_code |-> got.status,
                                         headers |-> TranslateHeaders(got.headers)]]
          ELSE [met EXCEPT !.pc = "raised",
                           !.exc = "UnicodeEncodeError",
                           !.raised = MapError("UnicodeEncodeError")]]
  /\ UNCHANGED <<ctorVars, sessVars, connVars, closeVars>>

RespondRaise_DropSession(t, e) ==
  /\ task[t].pc = "sent"
  /\ task' = [task EXCEPT ![t] =
                [Idle EXCEPT !.pc = "raised", !.via = task[t].via,
                             !.exc = e, !.raised = MapError(e)]]
  /\ session' = None
  /\ UNCHANGED <<ctorVars, nSessions, sessClosed, sessCloseCalls, connVars,
                 closeVars>>

\* The engine call raises e; the except clauses of lines 175-190 decide what
\* the caller sees.  Nothing but the exception leaves the handler.
RespondRaise(t, e) ==
  /\ task[t].pc = "sent"
  /\ task' = [task EXCEPT ![t] =
                [Idle EXCEPT !.pc = "raised", !.via = task[t].via,
                             !.exc = e, !.raised = MapError(e)]]
  /\ UNCHANGED <<ctorVars, sessVars, connVars, closeVars>>

\* --------------------------------------------------- AsyncResponseStream
RECURSIVE Sum(_)
Sum(q) == IF q = << >> THEN 0 ELSE q[1] + Sum(Tail(q))

\* Bytes of the body the content stream has not handed out yet.
Rest(t) == task[t].engResp.length - Sum(task[t].readLog)

\* The caller asks the body iterator for its next chunk: __aiter__ calls
\* self._content.read(65536) and awaits it.
StreamRead(t) ==
  /\ task[t].pc = "returned"
  /\ Len(task[t].readLog) < MaxReads
  /\ task' = [task EXCEPT ![t] = [@ EXCEPT !.pc = "reading"]]
  /\ UNCHANGED <<ctorVars, sessVars, connVars, closeVars>>

StreamChunk_YieldEmpty(t, k) ==
  /\ task[t].pc = "reading"
  /\ k \in ReadResults(ReadSize, Rest(t))
  /\ task' = [task EXCEPT ![t] =
       [@ EXCEPT !.pc = "returned",
                 !.readLog = Append(@, k),
                 !.yielded = Append(@, [off |-> Sum(task[t].readLog),
                                        len |-> k])]]
  /\ UNCHANGED <<ctorVars, sessVars, connVars, closeVars>>

\* The read returns a block of k bytes: an empty block ends the iteration,
\* any other is yielded to the caller.
StreamChunk(t, k) ==
  /\ task[t].pc = "reading"
  /\ k \in ReadResults(ReadSize, Rest(t))
  /\ task' = [task EXCEPT ![t] =
       IF k = 0
       THEN [@ EXCEPT !.pc = "drained", !.readLog = Append(@, k)]
       ELSE [@ EXCEPT !.pc = "returned",
                      !.readLog = Append(@, k),
                      !.yielded = Append(@, [off |-> Sum(task[t].readLog),
                                             len |-> k])]]
  /\ UNCHANGED <<ctorVars, sessVars, connVars, closeVars>>

\* The read raises e, which leaves the iterator through its except clause.
StreamRaise(t, e) ==
  /\ task[t].pc = "reading"
  /\ task' = [task EXCEPT ![t] =
       [@ EXCEPT !.pc = "stream_raised", !.exc = e,
                 !.raised = StreamMapError(e)]]
  /\ UNCHANGED <<ctorVars, sessVars, connVars, closeVars>>

\* The caller has received the exception or is done with the response.
Finish(t) ==
  /\ task[t].pc \in {"returned", "raised", "drained", "stream_raised"}
  /\ task' = [task EXCEPT ![t] = Idle]
  /\ UNCHANGED <<ctorVars, sessVars, connVars, closeVars>>

\* ------------------------------------------------------ aclose, __aexit__
AClose_ConnectorFirst(t) ==
  /\ ctor.status = "ok"
  /\ task[t].pc = "idle"
  /\ closeCalls < MaxCloses
  /\ closeCalls' = closeCalls + 1
  /\ connCloseCalls' = connCloseCalls + 1
  /\ IF session # None
     THEN /\ sessCloseCalls' = [sessCloseCalls EXCEPT ![session] = @ + 1]
          /\ task' = [task EXCEPT ![t] =
                        [Idle EXCEPT !.pc = "sess_closing", !.seen = session]]
     ELSE /\ task' = [task EXCEPT ![t] = [Idle EXCEPT !.pc = "conn_closing"]]
          /\ UNCHANGED sessCloseCalls
  /\ UNCHANGED <<ctorVars, session, nSessions, sessClosed, connClosed,
                 closeDone>>

\* aclose() up to its first await: with a session, session.close() is called;
\* without one, the connector's close() is called right away.
AClose(t) ==
  /\ ctor.status = "ok"
  /\ task[t].pc = "idle"
  /\ closeCalls < MaxCloses
  /\ closeCalls' = closeCalls + 1
  /\ IF session # None
     THEN /\ sessCloseCalls' = [sessCloseCalls EXCEPT ![session] = @ + 1]
          /\ task' = [task EXCEPT ![t] =
                        [Idle EXCEPT !.pc = "sess_closing", !.seen = session]]
          /\ UNCHANGED connCloseCalls
     ELSE /\ HasClose(ctor.connector)
          /\ connCloseCalls' = connCloseCalls + 1
          /\ task' = [task EXCEPT ![t] = [Idle EXCEPT !.pc = "conn_closing"]]
          /\ UNCHANGED sessCloseCalls
  /\ UNCHANGED <<ctorVars, session, nSessions, sessClosed, connClosed,
                 closeDone>>

\* __aexit__: its whole body is `await self.aclose()`.
AExit(t) == AClose(t)

ACloseSessionClosed_KeepSession(t) ==
  /\ task[t].pc = "sess_closing"
  /\ sessClosed' = [sessClosed EXCEPT ![task[t].seen] = TRUE]
  /\ HasClose(ctor.connector)
  /\ connCloseCalls' = connCloseCalls + 1
  /\ task' = [task EXCEPT ![t] = [@ EXCEPT !.pc = "conn_closing"]]
  /\ UNCHANGED <<ctorVars, session, nSessions, sessCloseCalls, connClosed,
                 closeVars>>

\* `await self._session.close()` returns: self._session is cleared and the
\* connector's close() is called.
ACloseSessionClosed(t) ==
  /\ task[t].pc = "sess_closing"
  /\ sessClosed' = [sessClosed EXCEPT ![task[t].seen] = TRUE]
  /\ session' = None
  /\ HasClose(ctor.connector)
  /\ connCloseCalls' = connCloseCalls + 1
  /\ task' = [task EXCEPT ![t] = [@ EXCEPT !.pc = "conn_closing"]]
  /\ UNCHANGED <<ctorVars, nSessions, sessCloseCalls, connClosed, closeVars>>

\* `await self._connector.close()` returns, and with it aclose().
ACloseConnectorClosed(t) ==
  /\ task[t].pc = "conn_closing"
  /\ connClosed' = TRUE
  /\ closeDone' = TRUE
  /\ task' = [task EXCEPT ![t] = Idle]
  /\ UNCHANGED <<ctorVars, sessVars, connCloseCalls, closeCalls>>

\* ---------------------------------------------------------- specifications
Next ==
  \E t \in Tasks :
    \/ AEnter(t)
    \/ \E n \in LifecycleChunks, h \in LifecycleHeaders :
         HandleStart(t, TRUE, n, h)
    \/ \E h \in LifecycleHeaders : HandleStart(t, FALSE, 0, h)
    \/ BodyNext(t)
    \/ \E r \in LifecycleResponses : RespondOk(t, r)
    \/ \E e \in LifecycleRaises : RespondRaise(t, e)
    \/ Finish(t)
    \/ AClose(t)
    \/ AExit(t)
    \/ ACloseSessionClosed(t)
    \/ ACloseConnectorClosed(t)

Spec == Init /\ [][Next]_vars

\* Requests alone, with every exception the engine call can raise.
NextErr ==
  \E t \in Tasks :
    \/ \E n \in 0..MaxChunks, h \in LifecycleHeaders :
         HandleStart(t, TRUE, n, h)
    \/ \E h \in LifecycleHeaders : HandleStart(t, FALSE, 0, h)
    \/ BodyNext(t)
    \/ \E r \in LifecycleResponses : RespondOk(t, r)
    \/ \E e \in EngineRaises : RespondRaise(t, e)
    \/ Finish(t)

SpecErr == Init /\ [][NextErr]_vars

\* Concurrent calls on one transport that nobody closes, each followed
\* through the reading of its response body.
NextConc ==
  \E t \in Tasks :
    \/ \E n \in 0..MaxChunks, h \in LifecycleHeaders :
         HandleStart(t, TRUE, n, h)
    \/ \E h \in LifecycleHeaders : HandleStart(t, FALSE, 0, h)
    \/ BodyNext(t)
    \/ \E r \in LifecycleResponses : RespondOk(t, r)
    \/ \E e \in LifecycleRaises : RespondRaise(t, e)
    \/ StreamRead(t)
    \/ \E k \in ReadResults(ReadSize, Rest(t)) : StreamChunk(t, k)
    \/ \E e \in LifecycleStreamRaises : StreamRaise(t, e)
    \/ Finish(t)

SpecConc == Init /\ [][NextConc]_vars

\* One call at a time, with every request, answer and body stream.
CallTasks == {1}

NextCall ==
  \E t \in CallTasks :
    \/ \E n \in 0..MaxChunks, h \in RequestHeaderChoices :
         HandleStart(t, TRUE, n, h)
    \/ \E h \in RequestHeaderChoices : HandleStart(t, FALSE, 0, h)
    \/ BodyNext(t)
    \/ \E r \in Responses : RespondOk(t, r)
    \/ \E e \in LifecycleRaises : RespondRaise(t, e)
    \/ StreamRead(t)
    \/ \E k \in ReadResults(ReadSize, Rest(t)) : StreamChunk(t, k)
    \/ \E e \in StreamRaises : StreamRaise(t, e)
    \/ Finish(t)

SpecCall == Init /\ [][NextCall]_vars

\* Construction for arbitrary arguments, followed by scoped entry.
NextCtor ==
  \/ Construct
  \/ \E t \in Tasks : AEnter(t)

SpecCtor == InitCtor /\ [][NextCtor]_vars


\* ------------------------------------------------------------------ claims
InRequest(t) == task[t].pc \in {"body", "sent", "returned", "raised"}
Dispatched(t) == task[t].pc \in {"sent", "returned", "raised"}

\* C1: on a fresh transport (no close() called yet), however first uses
\* through __aenter__ and handle_async_request interleave, one ClientSession
\* is constructed and every caller holds and dispatches through that one.
C1_OneSessionOnFirstUse ==
  closeCalls = 0 =>
    /\ nSessions <= 1
    /\ (nSessions = 1 => session = 1)
    /\ \A t \in Tasks :
         InRequest(t) =>
           /\ nSessions = 1
           /\ session = 1
           /\ task[t].pc \in {"body", "sent"} => task[t].own = 1
           /\ Dispatched(t) => task[t].via = 1

\* Two requests in flight on a fresh transport, the second having found the
\* session created by the first.
C1_Witness ==
  /\ closeCalls = 0
  /\ \E t, u \in Tasks :
       /\ t # u
       /\ task[t].pc = "body" /\ task[t].createdIt
       /\ task[u].pc = "sent" /\ ~task[u].createdIt /\ task[u].via = 1

\* C2: the connector's close() is called once over the life of the
\* transport, however often aclose()/__aexit__ run.
C2_ConnectorClosedOnce ==
  /\ connCloseCalls <= 1
  /\ closeDone => connCloseCalls = 1

\* C3: at most one session constructed by the transport is live, a session
\* being live from its construction until close() is first called on it.
C3_AtMostOneLiveSession ==
  Cardinality({s \in 1..nSessions : sessCloseCalls[s] = 0}) <= 1

\* C4: in every aclose()/__aexit__, the connector's close() is called only
\* once the close() of the session that call found has completed, and at the
\* moment of the call self._session no longer holds a session.
C4_SessionClosedBeforeConnector ==
  [][connCloseCalls' # connCloseCalls =>
       /\ session' = None
       /\ \A t \in Tasks :
            (task[t].pc = "sess_closing" /\ task'[t].pc = "conn_closing") =>
              sessClosed'[task[t].seen]
       /\ \A t \in Tasks :
            task'[t].pc # task[t].pc =>
              /\ task'[t].pc = "conn_closing"
              /\ task[t].pc = "idle" => session = None]_vars

\* A shutdown of a transport with a session has reached the connector.
C4_Witness ==
  \E t \in Tasks :
    /\ task[t].pc = "conn_closing"
    /\ task[t].seen # None
    /\ sessClosed[task[t].seen]
    /\ connCloseCalls = 1

\* C5: a handle_async_request that starts after an aclose() has returned and
\* left the transport without an open session constructs a new session,
\* makes it self._session, and dispatches through it: at once when the body
\* is not streamed, and after the body has been read as long as that session
\* is still self._session.
C5_ReopenAfterClose ==
  [][\A t \in Tasks :
       /\ ( /\ task[t].pc = "idle"
            /\ task'[t].pc \in {"body", "sent"}
            /\ closeDone
            /\ (session = None \/ sessClosed[session]) ) =>
              /\ nSessions' = nSessions + 1
              /\ session' = nSessions'
              /\ ~sessClosed'[session']
              /\ sessCloseCalls'[session'] = 0
              /\ task'[t].createdIt
              /\ task'[t].own = session'
              /\ task'[t].pc = "sent" => task'[t].via = session'
       /\ ( /\ task[t].pc = "body"
            /\ task'[t].pc \in {"sent", "raised"}
            /\ task[t].createdIt
            /\ session = task[t].own ) =>
              /\ task'[t].pc = "sent"
              /\ task'[t].via = task[t].own]_vars

\* A request that re-opened the transport after a completed close() has been
\* dispatched through the session it constructed.
C5_Witness ==
  \E t \in Tasks :
    /\ closeDone
    /\ task[t].pc = "sent"
    /\ task[t].createdIt
    /\ task[t].own > 1
    /\ task[t].via = task[t].own
    /\ session = task[t].own
    /\ \A u \in Tasks : u # t => task[u].pc = "idle"

\* The mapping table of the error taxonomy: engine error class -> kind.
ErrorTable ==
  {<<"ClientConnectorError", "ConnectError">>,
   <<"ClientOSError", "NetworkError">>,
   <<"ServerDisconnectedError", "RemoteProtocolError">>,
   <<"ClientResponseError", "ProtocolError">>,
   <<"ClientPayloadError", "ReadError">>,
   <<"ClientError", "NetworkError">>}

\* The kinds of the most specific rows of the table that exc is an instance
\* of: rows no other matching row is a subclass of.
MostSpecificKinds(exc) ==
  {row[2] : row \in
     {r \in ErrorTable :
        /\ IsInstance(exc, r[1])
        /\ \A q \in ErrorTable :
             (q # r /\ IsInstance(exc, q[1])) => ~IsInstance(q[1], r[1])}}

\* C6: every engine client error raised by the engine call leaves
\* handle_async_request as exactly one kind, the one of the most specific
\* row of the mapping table that matches it.
C6_ClientErrorMapping ==
  \A t \in Tasks :
    (task[t].pc = "raised" /\ IsInstance(task[t].exc, "ClientError")) =>
      /\ task[t].raised \in MappedKinds
      /\ MostSpecificKinds(task[t].exc) = {task[t].raised}

\* A proxy connection failure, a subclass of both the connection failure and
\* the OS failure rows, has been raised as ConnectError.
C6_Witness ==
  \E t \in Tasks :
    /\ task[t].pc = "raised"
    /\ task[t].exc = "ClientProxyConnectionError"
    /\ task[t].raised = "ConnectError"

\* C7: every timeout error raised by the engine call leaves
\* handle_async_request as TimeoutException.
C7_TimeoutMapping ==
  \A t \in Tasks :
    (task[t].pc = "raised" /\ IsInstance(task[t].exc, "TimeoutError")) =>
      task[t].raised = "TimeoutException"

\* C8: the step in which handle_async_request raises a mapped error leaves
\* self._session, every session and the connector as they were; and a call
\* that starts on the session another call has just failed on constructs no
\* session and dispatches through that one, at once or, after reading its
\* body, as long as it is still self._session.
C8_ErrorKeepsSession ==
  [][\A t \in Tasks :
       /\ ( /\ task[t].pc = "sent"
            /\ task'[t].pc = "raised"
            /\ task'[t].raised \in MappedKinds ) =>
              UNCHANGED <<session, nSessions, sessClosed, sessCloseCalls,
                          connCloseCalls, connClosed>>
       /\ ( /\ task[t].pc = "idle"
            /\ task'[t].pc \in {"body", "sent"}
            /\ JustFailedOn(session) ) =>
              /\ UNCHANGED <<session, nSessions>>
              /\ task'[t].afterErr
              /\ ~task'[t].createdIt
              /\ task'[t].own = session
              /\ task'[t].pc = "sent" => task'[t].via = session
       /\ ( /\ task[t].pc = "body"
            /\ task'[t].pc \in {"sent", "raised"}
            /\ task[t].afterErr
            /\ session = task[t].own ) =>
              /\ task'[t].pc = "sent"
              /\ task'[t].via = task[t].own]_vars

\* A call that began right after a mapped error on the session has been
\* dispatched through that session, which it did not construct.
C8_Witness ==
  \E t \in Tasks :
    /\ task[t].pc = "sent"
    /\ task[t].afterErr
    /\ ~task[t].createdIt
    /\ task[t].via = task[t].own
    /\ nSessions = 1
    /\ ~sessClosed[1]
    /\ connCloseCalls = 0

\* C9: a proxy whose scheme is neither http nor https makes __init__ raise
\* ValueError naming the scheme, with no connector and no session created;
\* an http or https proxy is never rejected, and once __init__ has
\* succeeded connector_kwargs holds str(proxy.url) under "proxy" and the
\* proxy headers, when there are any, under "proxy_headers".
C9_ProxyScheme ==
  (ctor.status # "new" /\ config.proxy.present) =>
    IF config.proxy.scheme \in {"http", "https"}
    THEN /\ ctor.status # "ValueError"
         /\ ctor.status = "ok" <=> (config.http2 => config.extension)
         /\ ctor.status = "ok" =>
              /\ "proxy" \in ctor.kwargs.keys
              /\ ctor.kwargs.proxy = config.proxy.scheme \o "://" \o config.proxy.host
              /\ IF config.proxy.headers # {}
                 THEN /\ "proxy_headers" \in ctor.kwargs.keys
                      /\ ctor.kwargs.proxy_headers = config.proxy.headers
                 ELSE "proxy_headers" \notin ctor.kwargs.keys
    ELSE /\ ctor.status = "ValueError"
         /\ ctor.badScheme = config.proxy.scheme
         /\ ctor.connector = "none"
         /\ nSessions = 0
         /\ session = None

\* __init__ has rejected a socks5 proxy.
C9_Witness ==
  /\ ctor.status = "ValueError"
  /\ config.proxy.scheme = "socks5"
  /\ ctor.badScheme = "socks5"

\* C10: with http2 set and the extension missing, __init__ raises (the
\* ImportError, unless the proxy was rejected first) and leaves no connector
\* and no session; with http2 unset the extension is never imported.
C10_Http2Extension ==
  ctor.status # "new" =>
    /\ (config.http2 /\ ~config.extension) =>
         /\ ctor.status \in {"ImportError", "ValueError"}
         /\ ctor.status = "ValueError" <=>
              (config.proxy.present /\ config.proxy.scheme \notin {"http", "https"})
         /\ ctor.connector = "none"
         /\ nSessions = 0
         /\ session = None
    /\ ~config.http2 =>
         /\ ~ctor.probed
         /\ ctor.status # "ImportError"
         /\ ctor.connector # "HTTP2ClientConnector"

\* __init__ has failed on the missing extension.
C10_Witness ==
  /\ ctor.status = "ImportError"
  /\ config.http2
  /\ ~config.extension
  /\ ctor.probed


\* The text headers a Response's byte pairs decode to.
DecodeHeaders(h) ==
  [i \in DOMAIN h |-> <<DecodeAscii(h[i][1]), DecodeAscii(h[i][2])>>]

\* The call that was served an answer made one engine request and returned
\* that answer's status and headers.
PassedThrough(t) ==
  /\ task[t].pc # "raised"
  /\ task[t].calls = 1
  /\ task[t].response.status_code = task[t].served.status
  /\ DecodeHeaders(task[t].response.headers) = task[t].served.headers

\* C11 as stated: for every engine response, redirects included, the call
\* makes exactly one engine request and returns the response with its status
\* code and headers unchanged.
C11_EveryResponseUnchanged ==
  \A t \in Tasks : task[t].served # NoResponse => PassedThrough(t)

\* C11, amended: for every engine response whose header names and values are
\* ASCII text, redirects included, the call makes exactly one engine request
\* and returns the response with its status code and headers unchanged.
C11_AsciiResponseUnchanged ==
  \A t \in Tasks :
    (task[t].served # NoResponse /\ CanTranslate(task[t].served)) =>
      PassedThrough(t)

\* A 302 with a Location header has been returned as a 302.
C11_Witness ==
  \E t \in Tasks :
    /\ task[t].pc = "returned"
    /\ task[t].served.status = 302
    /\ HasLocation(task[t].served)
    /\ task[t].response.status_code = 302
    /\ Len(task[t].response.headers) = 2

\* C12: every (name, value) pair of the request, repeated names included, is
\* among the headers handed to the engine.
C12_DuplicateHeadersForwarded ==
  \A t \in Tasks :
    \A i \in DOMAIN task[t].reqHeaders :
      <<task[t].reqHeaders[i][1], task[t].reqHeaders[i][2]>> \in task[t].headers

\* The blocks read so far were all yielded, in order and back to back.
YieldedAllReads(t) ==
  /\ Len(task[t].yielded) = Len(task[t].readLog)
  /\ \A i \in DOMAIN task[t].yielded :
       /\ task[t].yielded[i].len = task[t].readLog[i]
       /\ task[t].yielded[i].len > 0
       /\ task[t].yielded[i].off = Sum(SubSeq(task[t].readLog, 1, i - 1))

\* C13: a chunk read that raises an engine client error or a timeout reaches
\* the caller as NetworkError, and every block read before it has been
\* yielded to the caller, in order.
C13_StreamErrorMapping ==
  \A t \in Tasks :
    (/\ task[t].pc = "stream_raised"
     /\ \/ IsInstance(task[t].exc, "ClientError")
        \/ IsInstance(task[t].exc, "TimeoutError")) =>
      /\ task[t].raised = "NetworkError"
      /\ YieldedAllReads(t)

\* The server went away after a first chunk was delivered.
C13_Witness ==
  \E t \in Tasks :
    /\ task[t].pc = "stream_raised"
    /\ task[t].exc = "ServerDisconnectedError"
    /\ task[t].raised = "NetworkError"
    /\ Len(task[t].yielded) >= 1

\* C14: close() is called at most once on each session, however calls of
\* aclose()/__aexit__ follow or overlap each other, and an aclose() that
\* finds no session calls no session's close().
C14_SessionClosedOnce ==
  /\ \A s \in SessionIds : sessCloseCalls[s] <= 1
  /\ \A s \in SessionIds : s > nSessions => sessCloseCalls[s] = 0

C16_BodyIteration ==
  \A t \in Tasks :
    LET log == task[t].readLog
        full == {i \in DOMAIN log : log[i] > 0}
    IN /\ \A i \in DOMAIN log : log[i] <= ReadSize
       /\ \A i \in DOMAIN log : log[i] = 0 => i = Len(log)
       /\ Len(task[t].yielded) = Cardinality(full)
       /\ \A i \in DOMAIN task[t].yielded :
            /\ task[t].yielded[i].len = log[i]
            /\ task[t].yielded[i].len > 0
            /\ task[t].yielded[i].off = Sum(SubSeq(log, 1, i - 1))
       /\ task[t].pc = "drained" <=> (log # << >> /\ log[Len(log)] = 0)
       /\ task[t].pc = "drained" => Sum(log) = task[t].engResp.length

\* A body of 65537 bytes was iterated to its end in two chunks.
C16_Witness ==
  \E t \in Tasks :
    /\ task[t].pc = "drained"
    /\ task[t].readLog = <<ReadSize, 1, 0>>
    /\ Len(task[t].yielded) = 2

Suspended(t) == task[t].pc \in {"body", "sent", "reading"}

\* C17: while a call is suspended reading its request body, awaiting the
\* engine response or reading its response body, every other call can take
\* its next step towards the engine call: a new call can start and dispatch,
\* and a call reading its request body can go on.
C17_NoSerialization ==
  \A t \in Tasks : \A u \in Tasks \ {t} :
    Suspended(t) =>
      /\ task[u].pc = "idle" =>
           \A h \in LifecycleHeaders :
             /\ ENABLED HandleStart(u, FALSE, 0, h)
             /\ ENABLED HandleStart(u, TRUE, 0, h)
      /\ task[u].pc = "body" => ENABLED BodyNext(u)

\* Two calls are in flight, one reading its response body and one dispatched.
C17_Witness ==
  \E t \in Tasks : \E u \in Tasks \ {t} :
    /\ task[t].pc = "reading"
    /\ task[u].pc = "sent"

\* C18: connector_kwargs carries max_connections as the total cap "limit",
\* max_keepalive_connections as the per-host cap "limit_per_host",
\* keepalive_expiry as the idle-connection lifetime (aiohttp's
\* "keepalive_timeout") and enables the cleanup of closed connections; a cap
\* that is None is replaced by the engine's no-limit value, not passed on as
\* None.
C18_LimitsMapping ==
  ctor.status = "ok" =>
    /\ {"limit", "limit_per_host", "enable_cleanup_closed",
        "keepalive_timeout"} \subseteq ctor.kwargs.keys
    /\ ctor.kwargs.enable_cleanup_closed
    /\ IF config.limits.max_connections = None
       THEN ctor.kwargs.limit # None
       ELSE ctor.kwargs.limit = config.limits.max_connections
    /\ IF config.limits.max_keepalive_connections = None
       THEN ctor.kwargs.limit_per_host # None
       ELSE ctor.kwargs.limit_per_host = config.limits.max_keepalive_connections

\* C19: no call of session.request() happens once a close() of the
\* transport's connector has completed.
C19_NoDispatchOnClosedConnector ==
  [][\A t \in Tasks :
       (task[t].pc # "sent" /\ task'[t].pc = "sent") => ~connClosed]_vars

\* C20: every read of the response body happens before the engine response
\* has left its `async with`.
C20_ReadsOnOpenResponse ==
  \A t \in Tasks : task[t].pc = "reading" => ~task[t].released

====
